---- MODULE Spec2Model ----
(***************************************************************************)
(* Model of project_1_data_intake/src/validate_schema.py: validate(df,     *)
(* schema) and the command-line entry point main().                        *)
(*                                                                         *)
(* Python and pandas values are modelled as uniform records so that any    *)
(* two of them can be compared:                                            *)
(*   a cell value is [k, n, s]: k = "num" (n = twice the number, so that   *)
(*   halves such as 1.5 exist), k = "str" (s = its characters), k = "nan"  *)
(*   (NaN / None), k = "bool" (n = 1 or 0);                                *)
(*   a table is a sequence of columns [name, dtype, values] in column      *)
(*   order, dtype being str(series.dtype);                                 *)
(*   a schema is a record with the four keys validate reads, each with a   *)
(*   kind telling whether the key is absent, None, or of which type.       *)
(* Tables hold int64, float64 and object (text or NaN) columns.            *)
(***************************************************************************)
EXTENDS Integers, Sequences, FiniteSets, TLC

VARIABLES df, schema, results, rerun, stdout, exit_code

vars == <<df, schema, results, rerun, stdout, exit_code>>

(***************************************************************************)
(* Bounds of the model.                                                    *)
(***************************************************************************)
\* rows of the tables of the first four input families
NRows == 3

\* rows of the long tables: more rows than an issue keeps examples
ManyRows == 6

(***************************************************************************)
(* Generic helpers.                                                        *)
(***************************************************************************)
Range(f) == {f[i] : i \in DOMAIN f}

RECURSIVE SelectIdx(_, _, _)
\* the indices i in from..Len(mask) with mask[i], in increasing order
SelectIdx(mask, from, acc) ==
    IF from > Len(mask) THEN acc
    ELSE SelectIdx(mask, from + 1, IF mask[from] THEN Append(acc, from) ELSE acc)

\* s[mask]: the elements of s where mask is true, in row order
Masked(s, mask) == LET idx == SelectIdx(mask, 1, <<>>) IN [j \in 1..Len(idx) |-> s[idx[j]]]

\* number of true entries of a boolean series
CountTrue(mask) == Cardinality({i \in DOMAIN mask : mask[i]})

\* variant: head() keeps every element
Head_all(s, n) == s

\* Series.head(n) / list[:n]
Head_n(s, n) == IF Len(s) <= n THEN s ELSE SubSeq(s, 1, n)

RECURSIVE Flatten(_)
Flatten(ss) == IF ss = <<>> THEN <<>> ELSE Head(ss) \o Flatten(Tail(ss))

(***************************************************************************)
(* Cell values.                                                            *)
(***************************************************************************)
NaN == [k |-> "nan", n |-> 0, s |-> <<>>]
Num(x) == [k |-> "num", n |-> 2 * x, s |-> <<>>]
\* x + 0.5
NumHalf(x) == [k |-> "num", n |-> 2 * x + 1, s |-> <<>>]
Str(chars) == [k |-> "str", n |-> 0, s |-> chars]
Bool(b) == [k |-> "bool", n |-> IF b THEN 1 ELSE 0, s |-> <<>>]

\* Series.isna(), elementwise
isna(s) == [i \in DOMAIN s |-> s[i].k = "nan"]

\* ~mask
Invert(mask) == [i \in DOMAIN mask |-> ~mask[i]]

\* mask1 & mask2
AndMask(m1, m2) == [i \in DOMAIN m1 |-> m1[i] /\ m2[i]]

\* Series.dropna()
dropna(s) == Masked(s, Invert(isna(s)))

Digits == <<"0", "1", "2", "3", "4", "5", "6", "7", "8", "9">>

IsDigit(c) == \E d \in DOMAIN Digits : Digits[d] = c

DigitValue(c) == (CHOOSE d \in DOMAIN Digits : Digits[d] = c) - 1

RECURSIVE StrOfNat(_)
\* str(n) for a natural number n
StrOfNat(n) == IF n < 10 THEN <<Digits[n + 1]>> ELSE StrOfNat(n \div 10) \o <<Digits[(n % 10) + 1]>>

Abs(x) == IF x < 0 THEN -x ELSE x

\* str(v) of one non-null cell of a column of pandas dtype `dtype`:
\* an int64 cell prints as "1", a float64 cell as "1.0" or "1.5", text as itself
StrOfCell(v, dtype) ==
    CASE v.k = "str" -> v.s
      [] v.k = "bool" -> IF v.n = 1 THEN <<"T", "r", "u", "e">> ELSE <<"F", "a", "l", "s", "e">>
      [] v.k = "nan" -> <<"n", "a", "n">>
      [] OTHER ->
           LET sign == IF v.n < 0 THEN <<"-">> ELSE <<>>
               whole == StrOfNat(Abs(v.n) \div 2)
               frac == IF Abs(v.n) % 2 = 1 THEN <<".", "5">> ELSE <<".", "0">>
           IN  IF dtype = "int64" THEN sign \o whole ELSE sign \o whole \o frac

RECURSIVE NatOfDigits(_, _)
NatOfDigits(chars, acc) ==
    IF chars = <<>> THEN acc ELSE NatOfDigits(Tail(chars), 10 * acc + DigitValue(Head(chars)))

AllDigits(chars) == chars # <<>> /\ \A i \in DOMAIN chars : IsDigit(chars[i])

\* float(text) for texts of the form [-]digits[.0|.5]; any other text does not
\* parse (NaN under errors="coerce")
ParseNumber(chars) ==
    LET neg == chars # <<>> /\ Head(chars) = "-"
        body == IF neg THEN Tail(chars) ELSE chars
        dot == {i \in DOMAIN body : body[i] = "."}
        sgn == IF neg THEN -1 ELSE 1
    IN  IF dot = {}
        THEN IF AllDigits(body) THEN [k |-> "num", n |-> sgn * 2 * NatOfDigits(body, 0), s |-> <<>>]
             ELSE NaN
        ELSE LET d == CHOOSE i \in dot : TRUE
                 whole == SubSeq(body, 1, d - 1)
                 frac == SubSeq(body, d + 1, Len(body))
             IN  IF Cardinality(dot) = 1 /\ AllDigits(whole) /\ frac \in {<<"0">>, <<"5">>}
                 THEN [k |-> "num",
                       n |-> sgn * (2 * NatOfDigits(whole, 0) + (IF frac = <<"5">> THEN 1 ELSE 0)),
                       s |-> <<>>]
                 ELSE NaN

\* pd.to_numeric(s, errors="coerce"), elementwise
to_numeric(s) ==
    [i \in DOMAIN s |->
        CASE s[i].k = "num" -> s[i]
          [] s[i].k = "str" -> ParseNumber(s[i].s)
          [] OTHER -> NaN]

\* whether a text is a calendar year "dddd", the date texts of the model
IsDateText(chars) == Len(chars) = 4 /\ AllDigits(chars)

\* pd.to_datetime(s, errors="coerce").isna(), elementwise: numbers convert
\* (epoch offsets), date texts parse, other texts and nulls give NaT
to_datetime_isna(s) ==
    [i \in DOMAIN s |->
        CASE s[i].k = "num" -> FALSE
          [] s[i].k = "str" -> ~IsDateText(s[i].s)
          [] OTHER -> TRUE]

(***************************************************************************)
(* Python values of the schema mapping.                                    *)
(***************************************************************************)
\* a key holding a flag: "absent" (no such key), "none" (null), "true", "false";
\* dict.get(key, default) followed by a truth test
GetFlag(flag, default) == IF flag = "absent" THEN default ELSE flag = "true"

\* the column-spec fields of an empty mapping {}
EmptySpec ==
    [isnone |-> FALSE, required |-> "absent", nullable |-> "absent", dtype |-> "",
     has_min |-> FALSE, min |-> NaN, has_max |-> FALSE, max |-> NaN,
     has_allowed |-> FALSE, allowed |-> {}, regex |-> <<>>, unique |-> "absent"]

\* spec or {}
SpecOrEmpty(spec) == IF spec.isnone THEN EmptySpec ELSE spec

\* truth value of schema["columns"]: a non-empty container
ColumnsTruthy(cols) == cols.kind \in {"dict", "list", "str"} /\ cols.items # <<>>

EmptyDict == [kind |-> "dict", items |-> <<>>]

\* columns_spec = schema.get("columns", {}) or {}
columns_spec(sch) == IF ColumnsTruthy(sch.columns) THEN sch.columns ELSE EmptyDict

\* variant: the isinstance test left out
SchemaNoColumns_LenOnly(sch) == Len(columns_spec(sch).items) = 0

\* not isinstance(columns_spec, dict) or len(columns_spec) == 0
SchemaNoColumns(sch) ==
    LET cs == columns_spec(sch) IN cs.kind # "dict" \/ Len(cs.items) = 0

\* the keys of columns_spec, in the mapping's order
SchemaColumnNames(sch) ==
    LET it == columns_spec(sch).items IN [i \in DOMAIN it |-> it[i].name]

(***************************************************************************)
(* The table.                                                              *)
(***************************************************************************)
\* df.columns
ColumnNames(d) == [i \in DOMAIN d |-> d[i].name]

\* c in df.columns
HasColumn(d, c) == \E i \in DOMAIN d : d[i].name = c

\* df[c]: the (first) column of that name
Column(d, c) == d[CHOOSE i \in DOMAIN d : d[i].name = c /\ \A j \in 1..(i - 1) : d[j].name # c]

\* len(df)
RowCount(d) == IF d = <<>> THEN 0 ELSE Len(d[1].values)

\* one row as a record of the listed columns: to_dict(orient="records")
RowRecord(d, names, i) ==
    [names |-> names, vals |-> [j \in DOMAIN names |-> Column(d, names[j]).values[i]]]

(***************************************************************************)
(* Issues.                                                                 *)
(***************************************************************************)
NoColumn == "<None>"
NoCount == -1

\* ValidationIssue(level, code, message, column, n_rows, examples); message is
\* the format text with the names and numbers it interpolates; examples None
\* is has_examples = FALSE
ValidationIssue(level, code, fmt, strs, nums, column, n_rows, has_examples, examples) ==
    [level |-> level, code |-> code,
     message |-> [fmt |-> fmt, strs |-> strs, nums |-> nums],
     column |-> column, n_rows |-> n_rows,
     has_examples |-> has_examples, examples |-> examples]

\* an example that is a column name
NameExample(c) == [names |-> <<c>>, vals |-> <<>>]

\* an example that is a cell value
ValueExample(v) == [names |-> <<>>, vals |-> <<v>>]

NameExamples(cs) == [i \in DOMAIN cs |-> NameExample(cs[i])]

ValueExamples(vs) == [i \in DOMAIN vs |-> ValueExample(vs[i])]

SCHEMA_NO_COLUMNS ==
    ValidationIssue("ERROR", "SCHEMA_NO_COLUMNS",
                    "Schema must define a non-empty 'columns' mapping.", <<>>, <<>>,
                    NoColumn, NoCount, FALSE, <<>>)

(***************************************************************************)
(* validate, step 1 and 2: required and unexpected columns.                *)
(***************************************************************************)
\* required_cols = [c for c, spec in columns_spec.items() if (spec or {}).get("required", False)]
required_cols(sch) ==
    LET it == SelectSeq(columns_spec(sch).items,
                        LAMBDA e : GetFlag(SpecOrEmpty(e.spec).required, FALSE))
    IN  [i \in DOMAIN it |-> it[i].name]

\* missing = [c for c in required_cols if c not in df.columns]
MissingRequired(d, sch) == SelectSeq(required_cols(sch), LAMBDA c : ~HasColumn(d, c))

\* variant: one issue per missing column
RequiredIssues_PerColumn(d, sch) ==
    LET missing == MissingRequired(d, sch)
    IN  [i \in DOMAIN missing |->
            ValidationIssue("ERROR", "MISSING_REQUIRED_COLUMNS", "Missing required columns: {}",
                            <<missing[i]>>, <<>>, NoColumn, 1, TRUE, NameExamples(<<missing[i]>>))]

RequiredIssues(d, sch) ==
    LET missing == MissingRequired(d, sch)
    IN  IF missing # <<>>
        THEN <<ValidationIssue("ERROR", "MISSING_REQUIRED_COLUMNS", "Missing required columns: {}",
                               missing, <<>>, NoColumn, Len(missing), TRUE, NameExamples(missing))>>
        ELSE <<>>

\* allow_extra = bool(schema.get("allow_extra_columns", True))
allow_extra(sch) == GetFlag(sch.allow_extra_columns, TRUE)

\* unexpected = [c for c in df.columns if c not in columns_spec]
Unexpected(d, sch) ==
    SelectSeq(ColumnNames(d), LAMBDA c : c \notin Range(SchemaColumnNames(sch)))

UnexpectedIssues(d, sch) ==
    LET unexpected == Unexpected(d, sch)
    IN  IF ~allow_extra(sch) /\ unexpected # <<>>
        THEN <<ValidationIssue("WARN", "UNEXPECTED_COLUMNS",
                               "Unexpected columns found (schema disallows extras): {}",
                               unexpected, <<>>, NoColumn, Len(unexpected), TRUE,
                               NameExamples(unexpected))>>
        ELSE <<>>

(***************************************************************************)
(* validate, step 3: the checks of one column present in the table.  c is  *)
(* the table column [name, dtype, values], spec its column spec.           *)
(***************************************************************************)
\* _normalize_dtype_name(dtype), on the dtype names pandas prints
_normalize_dtype_name(dtype) ==
    CASE dtype \in {"int64", "int32", "int16", "int8"} -> "int"
      [] dtype \in {"float64", "float32"} -> "float"
      [] dtype \in {"object", "string"} -> "string"
      [] dtype \in {"datetime64[ns]"} -> "datetime"
      [] dtype = "bool" -> "bool"
      [] OTHER -> dtype

\* str(dtype_expected).lower().strip(), on the spellings a schema of the
\* model uses
LowerStrip(name) ==
    CASE name \in {"String", "STRING", " string"} -> "string"
      [] name \in {"Int", "INT", "int "} -> "int"
      [] name \in {"Float", "FLOAT"} -> "float"
      [] OTHER -> name

\* str.lower() alone (no strip), as the allowed-set check applies it
Lower(name) ==
    CASE name \in {"String", "STRING"} -> "string"
      [] name \in {"Int", "INT"} -> "int"
      [] name \in {"Float", "FLOAT"} -> "float"
      [] OTHER -> name

\* _coerce_string_series(s): s.where(s.isna(), s.astype(str))
_coerce_string_series(c) ==
    [i \in DOMAIN c.values |->
        IF c.values[i].k = "nan" THEN c.values[i] ELSE Str(StrOfCell(c.values[i], c.dtype))]

\* variant: a column is not nullable unless the spec says so
NullabilityIssues_DefaultFalse(c, spec) ==
    LET n_null == CountTrue(isna(c.values))
    IN  IF ~GetFlag(spec.nullable, FALSE) /\ n_null > 0
        THEN <<ValidationIssue("ERROR", "NULLS_NOT_ALLOWED",
                               "Column '{}' contains {} nulls but nullable=false.",
                               <<c.name>>, <<n_null>>, c.name, n_null, TRUE,
                               ValueExamples(Head_n(Masked(c.values, isna(c.values)), 5)))>>
        ELSE <<>>

\* 3a) nullability
NullabilityIssues(c, spec) ==
    LET nullable == GetFlag(spec.nullable, TRUE)
        n_null == CountTrue(isna(c.values))
        examples == Head_n(Masked(c.values, isna(c.values)), 5)
    IN  IF ~nullable /\ n_null > 0
        THEN <<ValidationIssue("ERROR", "NULLS_NOT_ALLOWED",
                               "Column '{}' contains {} nulls but nullable=false.",
                               <<c.name>>, <<n_null>>, c.name, n_null, TRUE,
                               ValueExamples(examples))>>
        ELSE <<>>

DtypeMismatch(c, fmt) ==
    ValidationIssue("ERROR", "DTYPE_MISMATCH", fmt, <<c.name, c.dtype>>, <<>>,
                    c.name, NoCount, FALSE, <<>>)

\* s.dropna().apply(float.is_integer).all()
AllIntLike(s) == \A i \in DOMAIN s : s[i].k = "num" => s[i].n % 2 = 0

\* 3b) dtype compatibility
DtypeIssues(c, spec) ==
    IF spec.dtype = "" THEN <<>>
    ELSE
    LET dtype_expected == LowerStrip(spec.dtype)
        actual_norm == _normalize_dtype_name(c.dtype)
    IN  CASE dtype_expected = "string" ->
               IF actual_norm \notin {"string", "object"}
               THEN <<DtypeMismatch(c, "Column '{}' expected dtype=string but got {}.")>>
               ELSE <<>>
          [] dtype_expected \in {"int", "integer"} ->
               IF actual_norm # "int"
               THEN IF actual_norm = "float" /\ AllIntLike(c.values)
                    THEN <<ValidationIssue("WARN", "DTYPE_INTLIKE_FLOAT",
                               "Column '{}' is float but appears int-like; consider casting to int.",
                               <<c.name>>, <<>>, c.name, NoCount, FALSE, <<>>)>>
                    ELSE <<DtypeMismatch(c, "Column '{}' expected dtype=int but got {}.")>>
               ELSE <<>>
          [] dtype_expected = "float" ->
               IF actual_norm \notin {"float", "int"}
               THEN <<DtypeMismatch(c, "Column '{}' expected dtype=float but got {}.")>>
               ELSE <<>>
          [] dtype_expected = "bool" ->
               IF actual_norm # "bool"
               THEN <<DtypeMismatch(c, "Column '{}' expected dtype=bool but got {}.")>>
               ELSE <<>>
          [] dtype_expected = "datetime" ->
               IF actual_norm # "datetime"
                  /\ CountTrue(to_datetime_isna(c.values)) # CountTrue(isna(c.values))
               THEN <<ValidationIssue("ERROR", "DTYPE_MISMATCH",
                               "Column '{}' expected datetime; coercion failed for some values.",
                               <<c.name>>, <<>>, c.name, NoCount, FALSE, <<>>)>>
               ELSE <<>>
          [] OTHER -> <<>>

\* 3c) range: num = pd.to_numeric(s, errors="coerce"); valid = num.dropna()
RangeIssues(c, spec) ==
    IF ~(spec.has_min \/ spec.has_max) THEN <<>>
    ELSE
    LET valid == dropna(to_numeric(c.values))
        below == SelectSeq(valid, LAMBDA v : v.n < spec.min.n)
        above == SelectSeq(valid, LAMBDA v : v.n > spec.max.n)
    IN  (IF spec.has_min /\ Len(below) > 0
         THEN <<ValidationIssue("ERROR", "MIN_VIOLATION", "Column '{}' has {} values < min({}).",
                                <<c.name>>, <<Len(below), spec.min.n>>, c.name, Len(below), TRUE,
                                ValueExamples(Head_n(below, 5)))>>
         ELSE <<>>)
        \o
        (IF spec.has_max /\ Len(above) > 0
         THEN <<ValidationIssue("ERROR", "MAX_VIOLATION", "Column '{}' has {} values > max({}).",
                                <<c.name>>, <<Len(above), spec.max.n>>, c.name, Len(above), TRUE,
                                ValueExamples(Head_n(above, 5)))>>
         ELSE <<>>)

\* 3d) allowed set
AllowedIssues(c, spec) ==
    IF ~spec.has_allowed THEN <<>>
    ELSE
    LET ss == IF Lower(spec.dtype) = "string" THEN _coerce_string_series(c) ELSE c.values
        bad_mask == [i \in DOMAIN ss |-> ss[i].k # "nan" /\ ss[i] \notin spec.allowed]
        n_bad == CountTrue(bad_mask)
    IN  IF n_bad > 0
        THEN <<ValidationIssue("ERROR", "ALLOWED_SET_VIOLATION",
                               "Column '{}' has {} values not in allowed set.",
                               <<c.name>>, <<n_bad>>, c.name, n_bad, TRUE,
                               ValueExamples(Head_n(Masked(c.values, bad_mask), 5)))>>
        ELSE <<>>

\* re.match(pattern, text) for a pattern of literal characters: the text starts
\* with the pattern
str_match(text, pattern) ==
    Len(text) >= Len(pattern) /\ SubSeq(text, 1, Len(pattern)) = pattern

\* 3e) regex
RegexIssues(c, spec) ==
    IF spec.regex = <<>> THEN <<>>
    ELSE
    LET ss == _coerce_string_series(c)
        bad_mask == [i \in DOMAIN ss |-> ss[i].k # "nan" /\ ~str_match(ss[i].s, spec.regex)]
        n_bad == CountTrue(bad_mask)
    IN  IF n_bad > 0
        THEN <<ValidationIssue("ERROR", "REGEX_VIOLATION",
                               "Column '{}' has {} values not matching regex: {}",
                               <<c.name>>, <<n_bad>>, c.name, n_bad, TRUE,
                               ValueExamples(Head_n(Masked(c.values, bad_mask), 5)))>>
        ELSE <<>>

\* Series.duplicated(keep=False): every occurrence of a repeated value
duplicated(s) == [i \in DOMAIN s |-> \E j \in DOMAIN s : j # i /\ s[j] = s[i]]

\* 3f) uniqueness
UniqueIssues(c, spec) ==
    IF ~GetFlag(spec.unique, FALSE) THEN <<>>
    ELSE
    LET dup_mask == AndMask(duplicated(c.values), Invert(isna(c.values)))
        n_dup == CountTrue(dup_mask)
    IN  IF n_dup > 0
        THEN <<ValidationIssue("ERROR", "UNIQUE_VIOLATION",
                               "Column '{}' has {} duplicated entries but unique=true.",
                               <<c.name>>, <<n_dup>>, c.name, n_dup, TRUE,
                               ValueExamples(Head_n(Masked(c.values, dup_mask), 5)))>>
        ELSE <<>>

\* the body of the loop `for col, spec in columns_spec.items()` for one item
OneColumnIssues(d, item) ==
    LET spec == SpecOrEmpty(item.spec)
    IN  IF ~HasColumn(d, item.name) THEN <<>>
        ELSE LET c == Column(d, item.name)
             IN  NullabilityIssues(c, spec) \o DtypeIssues(c, spec) \o RangeIssues(c, spec)
                 \o AllowedIssues(c, spec) \o RegexIssues(c, spec) \o UniqueIssues(c, spec)

\* variant: the loop runs over the table's columns, in the table's order
ColumnIssues_TableOrder(d, sch) ==
    LET it == columns_spec(sch).items
        declared == SelectSeq(ColumnNames(d), LAMBDA c : \E i \in DOMAIN it : it[i].name = c)
    IN  Flatten([j \in DOMAIN declared |->
                    OneColumnIssues(d, it[CHOOSE i \in DOMAIN it : it[i].name = declared[j]])])

\* 3) the column loop, in the schema's column order
ColumnIssues(d, sch) ==
    LET it == columns_spec(sch).items
    IN  Flatten([i \in DOMAIN it |-> OneColumnIssues(d, it[i])])

(***************************************************************************)
(* validate, step 4: primary key.  schema["primary_key"] is [kind, items,  *)
(* n]: kind "absent", "none", "list" (items = its elements, each [isstr,   *)
(* name]), "str" (a bare text, items = one element per column name it      *)
(* spells, empty for ""), "int" (the number n).                            *)
(***************************************************************************)
\* truth value of pk
PkTruthy(pk) ==
    CASE pk.kind \in {"list", "str"} -> pk.items # <<>>
      [] pk.kind = "int" -> pk.n # 0
      [] OTHER -> FALSE

\* isinstance(pk, list) and all(isinstance(x, str) for x in pk)
PkIsListOfStr(pk) == pk.kind = "list" /\ \A i \in DOMAIN pk.items : pk.items[i].isstr

PkNames(pk) == [i \in DOMAIN pk.items |-> pk.items[i].name]

\* variant: keep="first", only the later occurrences are flagged
df_duplicated_KeepFirst(d, names) ==
    LET key(i) == [j \in DOMAIN names |-> Column(d, names[j]).values[i]]
    IN  [i \in 1..RowCount(d) |-> \E r \in 1..(i - 1) : key(r) = key(i)]

\* df.duplicated(subset=names, keep=False): rows whose key tuple is the key
\* tuple of another row (nulls compare equal to nulls)
df_duplicated(d, names) ==
    LET key(i) == [j \in DOMAIN names |-> Column(d, names[j]).values[i]]
    IN  [i \in 1..RowCount(d) |-> \E r \in 1..RowCount(d) : r # i /\ key(r) = key(i)]

PrimaryKeyIssues(d, sch) ==
    LET pk == sch.primary_key
    IN  IF ~PkTruthy(pk) THEN <<>>
        ELSE IF ~PkIsListOfStr(pk)
        THEN <<ValidationIssue("ERROR", "SCHEMA_PRIMARY_KEY_INVALID",
                               "Schema 'primary_key' must be a list of column names.",
                               <<>>, <<>>, NoColumn, NoCount, FALSE, <<>>)>>
        ELSE LET missing_pk == SelectSeq(PkNames(pk), LAMBDA c : ~HasColumn(d, c))
             IN  IF missing_pk # <<>>
                 THEN <<ValidationIssue("ERROR", "PRIMARY_KEY_MISSING_COLUMNS",
                                        "Primary key columns missing from table: {}",
                                        missing_pk, <<>>, NoColumn, NoCount, TRUE,
                                        NameExamples(missing_pk))>>
                 ELSE LET dup_rows == df_duplicated(d, PkNames(pk))
                          n_dup == CountTrue(dup_rows)
                          idx == Head_n(SelectIdx(dup_rows, 1, <<>>), 5)
                      IN  IF n_dup > 0
                          THEN <<ValidationIssue("ERROR", "PRIMARY_KEY_NOT_UNIQUE",
                                        "Primary key {} is not unique; {} rows are duplicates.",
                                        PkNames(pk), <<n_dup>>, NoColumn, n_dup, TRUE,
                                        [j \in DOMAIN idx |-> RowRecord(d, PkNames(pk), idx[j])])>>
                          ELSE <<>>

(***************************************************************************)
(* validate, step 5: table rules.  schema["rules"] is [kind, items]: kind  *)
(* "absent", "none", "list", "dict" (a mapping, not a list); a rule is     *)
(* [pytype, has_name, name, expr_kind, expr]: pytype the rule's Python type,*)
(* expr_kind "absent", "none", "str" (expr = the text) or "int".           *)
(***************************************************************************)
\* the parse of an expression text: a comparison or difference of two columns,
\* a column, a constant; any other text is a syntax error
ParseExpr(text) ==
    CASE text = "a >= b" -> [op |-> "ge", l |-> "a", r |-> "b"]
      [] text = "b >= a" -> [op |-> "ge", l |-> "b", r |-> "a"]
      [] text = "a != b" -> [op |-> "ne", l |-> "a", r |-> "b"]
      [] text = "a - b" -> [op |-> "sub", l |-> "a", r |-> "b"]
      [] text = "a" -> [op |-> "col", l |-> "a", r |-> "a"]
      [] text = "b" -> [op |-> "col", l |-> "b", r |-> "b"]
      [] text = "a >= zz" -> [op |-> "ge", l |-> "a", r |-> "zz"]
      [] text = "1" -> [op |-> "const", l |-> "", r |-> ""]
      [] OTHER -> [op |-> "syntax", l |-> "", r |-> ""]

IsNumeric(c) == _normalize_dtype_name(c.dtype) \in {"int", "float"}

\* df.eval(expr, engine="python") on numeric operand columns:
\* [raised, cause, is_series, dtype, out]
df_eval(d, text) ==
    LET e == ParseExpr(text)
        fail(cause) == [raised |-> TRUE, cause |-> cause, is_series |-> FALSE,
                        dtype |-> "", out |-> <<>>]
        L == Column(d, e.l).values
        R == Column(d, e.r).values
        rows == 1..RowCount(d)
    IN  CASE e.op = "syntax" -> fail("invalid syntax")
          [] e.op = "const" ->
               [raised |-> FALSE, cause |-> "", is_series |-> FALSE, dtype |-> "", out |-> <<>>]
          [] ~HasColumn(d, e.l) -> fail("name is not defined")
          [] ~HasColumn(d, e.r) -> fail("name is not defined")
          [] ~IsNumeric(Column(d, e.l)) \/ ~IsNumeric(Column(d, e.r)) ->
               fail("unsupported operand types")
          [] e.op = "ge" ->
               \* a comparison with a NaN operand is False
               [raised |-> FALSE, cause |-> "", is_series |-> TRUE, dtype |-> "bool",
                out |-> [i \in rows |->
                            Bool(L[i].k = "num" /\ R[i].k = "num" /\ L[i].n >= R[i].n)]]
          [] e.op = "ne" ->
               \* NaN != x is True
               [raised |-> FALSE, cause |-> "", is_series |-> TRUE, dtype |-> "bool",
                out |-> [i \in rows |->
                            Bool(L[i].k = "nan" \/ R[i].k = "nan" \/ L[i].n # R[i].n)]]
          [] e.op = "sub" ->
               \* a difference with a NaN operand is NaN
               LET anynan == \E i \in rows : L[i].k = "nan" \/ R[i].k = "nan"
                   floats == anynan \/ Column(d, e.l).dtype = "float64"
                                    \/ Column(d, e.r).dtype = "float64"
               IN  [raised |-> FALSE, cause |-> "", is_series |-> TRUE,
                    dtype |-> IF floats THEN "float64" ELSE "int64",
                    out |-> [i \in rows |->
                                IF L[i].k = "nan" \/ R[i].k = "nan" THEN NaN
                                ELSE [k |-> "num", n |-> L[i].n - R[i].n, s |-> <<>>]]]
          [] OTHER ->
               [raised |-> FALSE, cause |-> "", is_series |-> TRUE,
                dtype |-> Column(d, e.l).dtype, out |-> L]

\* Series.astype(bool), elementwise: bool(nan) is True, bool(0) is False
astype_bool(s) ==
    [i \in DOMAIN s |->
        CASE s[i].k = "bool" -> s[i]
          [] s[i].k = "nan" -> Bool(TRUE)
          [] s[i].k = "num" -> Bool(s[i].n # 0)
          [] OTHER -> Bool(s[i].s # <<>>)]

\* _safe_eval_expr(df, expr): [raised, message, out]; every failure is raised
\* again as ValueError("Failed to evaluate rule expr='...': ...")
_safe_eval_expr(d, text) ==
    LET r == df_eval(d, text)
        failed(cause) ==
            [raised |-> TRUE,
             message |-> [fmt |-> "Failed to evaluate rule expr='{}': {}",
                          strs |-> <<text, cause>>, nums |-> <<>>],
             out |-> <<>>]
    IN  IF r.raised THEN failed(r.cause)
        ELSE IF ~r.is_series THEN failed("Expression did not evaluate to a row-wise Series.")
        ELSE [raised |-> FALSE,
              message |-> [fmt |-> "", strs |-> <<>>, nums |-> <<>>],
              out |-> IF r.dtype # "bool" THEN astype_bool(r.out) ELSE r.out]

\* Series.fillna(False)
fillna_false(s) == [i \in DOMAIN s |-> IF s[i].k = "nan" THEN Bool(FALSE) ELSE s[i]]

\* bad_mask = ~ok.fillna(False)
RuleBadMask(ok) == LET f == fillna_false(ok) IN [i \in DOMAIN f |-> f[i] # Bool(TRUE)]

\* a truth test of expr: a non-empty text or a non-zero number
ExprTruthy(r) ==
    CASE r.expr_kind = "str" -> r.expr # ""
      [] r.expr_kind = "int" -> r.expr # "0"
      [] OTHER -> FALSE

\* name = r.get("name", "unnamed_rule")
RuleName(r) == IF r.has_name THEN r.name ELSE "unnamed_rule"

\* the body of the loop `for r in rules` for one rule
OneRuleIssues(d, r) ==
    IF r.pytype # "dict"
    THEN <<ValidationIssue("ERROR", "SCHEMA_RULE_INVALID", "Rule must be dict, got: {}",
                           <<r.pytype>>, <<>>, NoColumn, NoCount, FALSE, <<>>)>>
    ELSE IF ~ExprTruthy(r) \/ r.expr_kind # "str"
    THEN <<ValidationIssue("ERROR", "SCHEMA_RULE_MISSING_EXPR", "Rule '{}' missing 'expr' string.",
                           <<RuleName(r)>>, <<>>, NoColumn, NoCount, FALSE, <<>>)>>
    ELSE LET ok == _safe_eval_expr(d, r.expr)
             bad_mask == RuleBadMask(ok.out)
             n_bad == CountTrue(bad_mask)
             idx == Head_n(SelectIdx(bad_mask, 1, <<>>), 3)
         IN  IF ok.raised
             THEN <<[level |-> "ERROR", code |-> "TABLE_RULE_EVAL_ERROR", message |-> ok.message,
                     column |-> NoColumn, n_rows |-> NoCount, has_examples |-> FALSE,
                     examples |-> <<>>]>>
             ELSE IF n_bad > 0
             THEN <<ValidationIssue("ERROR", "TABLE_RULE_VIOLATION",
                                    "Rule '{}' failed for {} rows. expr={}",
                                    <<RuleName(r), r.expr>>, <<n_bad>>, NoColumn, n_bad, TRUE,
                                    [j \in DOMAIN idx |-> RowRecord(d, ColumnNames(d), idx[j])])>>
             ELSE <<>>

\* rules = schema.get("rules", []) or []
RulesTruthy(rules) == rules.kind \in {"list", "dict"} /\ rules.items # <<>>

RECURSIVE UntilFirstError(_, _)
UntilFirstError(d, rs) ==
    IF rs = <<>> THEN <<>>
    ELSE LET x == OneRuleIssues(d, Head(rs))
         IN  IF x # <<>> /\ x[1].code # "TABLE_RULE_VIOLATION" THEN x
             ELSE x \o UntilFirstError(d, Tail(rs))

\* variant: the first rule that cannot be evaluated ends the loop
RuleIssues_AbortOnError(d, sch) ==
    IF ~RulesTruthy(sch.rules) THEN <<>>
    ELSE IF sch.rules.kind # "list"
    THEN <<ValidationIssue("ERROR", "SCHEMA_RULES_INVALID", "Schema 'rules' must be a list.",
                           <<>>, <<>>, NoColumn, NoCount, FALSE, <<>>)>>
    ELSE UntilFirstError(d, sch.rules.items)

RuleIssues(d, sch) ==
    LET rules == sch.rules
    IN  IF ~RulesTruthy(rules) THEN <<>>
        ELSE IF rules.kind # "list"
        THEN <<ValidationIssue("ERROR", "SCHEMA_RULES_INVALID", "Schema 'rules' must be a list.",
                               <<>>, <<>>, NoColumn, NoCount, FALSE, <<>>)>>
        ELSE Flatten([i \in DOMAIN rules.items |-> OneRuleIssues(d, rules.items[i])])

(***************************************************************************)
(* validate and main.                                                      *)
(***************************************************************************)
\* variant: any issue, a warning included, blocks
IsValid_NoIssueAtAll(issues) == issues = <<>>

\* is_valid = not any(i.level == "ERROR" for i in issues)
IsValid(issues) == ~\E i \in DOMAIN issues : issues[i].level = "ERROR"

\* return is_valid, issues
Returned(issues) == [is_valid |-> IsValid(issues), issues |-> issues]

\* validate(df, schema) -> (is_valid, issues)
validate(d, sch) ==
    IF SchemaNoColumns(sch)
    THEN [is_valid |-> FALSE, issues |-> <<SCHEMA_NO_COLUMNS>>]
    ELSE Returned(RequiredIssues(d, sch) \o UnexpectedIssues(d, sch) \o ColumnIssues(d, sch)
                  \o PrimaryKeyIssues(d, sch) \o RuleIssues(d, sch))

\* _print_report: the status line
_print_report(is_valid) == IF is_valid THEN "VALID" ELSE "INVALID"

\* variant: failure reported with status 1
ExitStatus_One(is_valid) == IF is_valid THEN 0 ELSE 1

\* main: return 0 if is_valid else 2
ExitStatus(is_valid) == IF is_valid THEN 0 ELSE 2

(***************************************************************************)
(* The inputs: tables and schemas of the model.                            *)
(***************************************************************************)
ab == <<"a", "b">>
y2020 == <<"2", "0", "2", "0">>

FloatCells == {NaN, Num(-1), NumHalf(1)}
IntCells == {Num(-1), Num(1)}
TextCells == {NaN, Str(ab), Str(y2020)}

\* every column of n rows with the given name, dtype and cells
ColumnsOf(name, dtype, cells, n) ==
    {[name |-> name, dtype |-> dtype, values |-> v] : v \in [1..n -> cells]}

\* the column "a" in each of the three storage kinds
ColumnA(n) ==
    ColumnsOf("a", "float64", FloatCells, n) \cup ColumnsOf("a", "int64", IntCells, n)
        \cup ColumnsOf("a", "object", TextCells, n)

\* a column the schemas do not declare
ColumnX(n) == [name |-> "x", dtype |-> "int64", values |-> [i \in 1..n |-> Num(1)]]

TablesWithA == {<<c>> : c \in ColumnA(NRows)}
TablesWithAX == {<<c, ColumnX(NRows)>> : c \in ColumnA(NRows)}
TablesWithoutA == {<<>>, <<ColumnX(NRows)>>}

AllChecks == {"null", "min", "max", "allowed", "regex", "unique"}

CheckSets ==
    {{}} \cup {{k} : k \in AllChecks} \cup {AllChecks}
        \cup {{"null", "min"}, {"min", "max"}, {"allowed", "regex"}, {"regex", "unique"}}

\* a column spec with the given checks switched on
MkSpec(required, checks, dtype) ==
    [isnone |-> FALSE, required |-> required,
     nullable |-> IF "null" \in checks THEN "false" ELSE "absent",
     dtype |-> dtype,
     has_min |-> "min" \in checks, min |-> IF "min" \in checks THEN Num(0) ELSE NaN,
     has_max |-> "max" \in checks, max |-> IF "max" \in checks THEN Num(1) ELSE NaN,
     has_allowed |-> "allowed" \in checks,
     allowed |-> IF "allowed" \in checks THEN {Str(ab), Num(-1)} ELSE {},
     regex |-> IF "regex" \in checks THEN <<"a">> ELSE <<>>,
     unique |-> IF "unique" \in checks THEN "true" ELSE "absent"]

NoneSpec == [EmptySpec EXCEPT !.isnone = TRUE]

DtypeNames == {"", "int", "integer", "float", "string", "bool", "datetime", "String"}

ColumnSpecs(required) ==
    {MkSpec(required, {}, dt) : dt \in DtypeNames}
        \cup {MkSpec(required, cs, dt) : cs \in CheckSets \ {{}}, dt \in {"", "int", "string"}}

NoPk == [kind |-> "absent", items |-> <<>>, n |-> 0]
NoRules == [kind |-> "absent", items |-> <<>>]

PkList(names) ==
    [kind |-> "list", items |-> [i \in DOMAIN names |-> [isstr |-> TRUE, name |-> names[i]]],
     n |-> 0]

DictColumns(items) == [kind |-> "dict", items |-> items]

MkSchema(columns, extra, pk, rules) ==
    [columns |-> columns, allow_extra_columns |-> extra, primary_key |-> pk, rules |-> rules]

\* a rule mapping {name: ..., expr: "<text>"}
NamedRule(name, text) ==
    [pytype |-> "dict", has_name |-> TRUE, name |-> name, expr_kind |-> "str", expr |-> text]

\* schemas declaring "a", with or without a second, required column "b"
ColumnSchemas(required, extra) ==
    {MkSchema(DictColumns(items), extra, NoPk, NoRules) :
        items \in UNION {{<<[name |-> "a", spec |-> sp]>>,
                          <<[name |-> "a", spec |-> sp],
                            [name |-> "b", spec |-> MkSpec("true", {}, "")]>>} :
                         sp \in ColumnSpecs(required)}}

\* family 1: column checks
InitColumns ==
    \/ schema \in ColumnSchemas("true", "absent") /\ df \in TablesWithA
    \/ schema \in ColumnSchemas("absent", "false") /\ df \in TablesWithAX
    \/ schema \in ColumnSchemas("true", "absent") \cup ColumnSchemas("false", "false")
          \cup {MkSchema(DictColumns(<<[name |-> "a", spec |-> NoneSpec]>>), "none", NoPk, NoRules)}
       /\ df \in TablesWithoutA \cup {<<ColumnX(NRows), c>> : c \in ColumnsOf("a", "float64", {NaN}, NRows)}

\* family 2: the schema's "columns" entry is missing, null, empty or no mapping
BadColumns ==
    {[kind |-> "absent", items |-> <<>>], [kind |-> "none", items |-> <<>>],
     [kind |-> "dict", items |-> <<>>], [kind |-> "list", items |-> <<>>],
     [kind |-> "str", items |-> <<>>],
     [kind |-> "list", items |-> <<[name |-> "a", spec |-> NoneSpec]>>],
     [kind |-> "str", items |-> <<[name |-> "a", spec |-> NoneSpec]>>]}

\* a rule that is a bare text, not a mapping
TextRule == [pytype |-> "str", has_name |-> FALSE, name |-> "", expr_kind |-> "absent", expr |-> ""]

RuleList(rs) == [kind |-> "list", items |-> rs]

InitSchemaStructure ==
    /\ schema \in {MkSchema(cols, extra, pk, rules) :
                      cols \in BadColumns, extra \in {"absent", "false"},
                      pk \in {NoPk, PkList(<<"a">>), PkList(<<"zz">>)},
                      rules \in {NoRules, RuleList(<<NamedRule("r", "a >= b")>>),
                                 RuleList(<<TextRule>>)}}
    /\ df \in TablesWithoutA \cup {<<c>> : c \in ColumnsOf("a", "int64", IntCells, NRows)}

\* family 3: primary keys
KeyCells == {NaN, Num(1), Num(2)}

KeyTables ==
    {<<c>> : c \in ColumnsOf("a", "float64", KeyCells, NRows)}
        \cup {<<c, k>> : c \in ColumnsOf("a", "float64", KeyCells, NRows),
                         k \in ColumnsOf("b", "int64", {Num(1), Num(2)}, NRows)}

\* primary_key values that are no list of texts, or are empty
OddKeys ==
    {[kind |-> "none", items |-> <<>>, n |-> 0],
     [kind |-> "list", items |-> <<>>, n |-> 0],
     [kind |-> "str", items |-> <<>>, n |-> 0],
     [kind |-> "str", items |-> <<[isstr |-> TRUE, name |-> "a"]>>, n |-> 0],
     [kind |-> "int", items |-> <<>>, n |-> 0],
     [kind |-> "int", items |-> <<>>, n |-> 5],
     [kind |-> "list", items |-> <<[isstr |-> FALSE, name |-> "3"]>>, n |-> 0],
     [kind |-> "list", items |-> <<[isstr |-> TRUE, name |-> "a"],
                                   [isstr |-> FALSE, name |-> "3"]>>, n |-> 0]}

ListKeys ==
    {PkList(ns) : ns \in {<<"a">>, <<"b">>, <<"a", "b">>, <<"b", "a">>, <<"a", "zz">>,
                          <<"zz", "b", "yy">>}}

InitPrimaryKey ==
    /\ schema \in {MkSchema(DictColumns(<<[name |-> "a", spec |-> EmptySpec]>>), "absent", pk, NoRules) :
                      pk \in OddKeys \cup ListKeys \cup {NoPk}}
    /\ df \in KeyTables

\* family 4: table rules
RuleTables ==
    {<<c>> : c \in ColumnsOf("a", "float64", {NaN, Num(0), Num(1)}, NRows)}
        \cup {<<c, [name |-> "b", dtype |-> "int64", values |-> [i \in 1..NRows |-> Num(1)]]>> :
                 c \in ColumnsOf("a", "float64", {NaN, Num(0), Num(1)}, NRows)}

\* a rule mapping whose expr is missing, null, empty or a number
RuleWithExpr(has_name, name, expr_kind, expr) ==
    [pytype |-> "dict", has_name |-> has_name, name |-> name, expr_kind |-> expr_kind,
     expr |-> expr]

RuleItems ==
    {TextRule,
     RuleWithExpr(FALSE, "", "absent", ""), RuleWithExpr(TRUE, "r1", "none", ""),
     RuleWithExpr(TRUE, "r2", "str", ""), RuleWithExpr(TRUE, "r3", "int", "5"),
     NamedRule("ge", "a >= b"), NamedRule("ne", "a != b"), NamedRule("sub", "a - b"),
     NamedRule("col", "a"), RuleWithExpr(FALSE, "", "str", "a"),
     NamedRule("const", "1"), NamedRule("bad", "a >="), NamedRule("unk", "a >= zz")}

LaterRules == {TextRule, NamedRule("ge", "a >= b"), NamedRule("col", "a"), NamedRule("bad", "a >=")}

RuleLists ==
    {RuleList(<<r>>) : r \in RuleItems}
        \cup {RuleList(<<r, q>>) : r \in RuleItems, q \in LaterRules}
        \cup {RuleList(<<>>), [kind |-> "none", items |-> <<>>],
              [kind |-> "dict", items |-> <<NamedRule("ge", "a >= b")>>]}

InitRules ==
    /\ schema \in {MkSchema(DictColumns(<<[name |-> "a", spec |-> sp]>>), "absent", NoPk, rules) :
                      sp \in {EmptySpec, MkSpec("true", {"null"}, "")}, rules \in RuleLists}
    /\ df \in RuleTables

\* family 5: long tables, whose offending rows outnumber the examples kept,
\* under schemas whose column order is not the table's
LongTables ==
    {<<c, [name |-> "b", dtype |-> "int64", values |-> [i \in 1..ManyRows |-> Num(2)]],
       ColumnX(ManyRows)>> :
        c \in ColumnsOf("a", "float64", {NaN, Num(-1), Num(2)}, ManyRows)}

LongSchemas ==
    UNION {{MkSchema(DictColumns(<<[name |-> "a", spec |-> MkSpec("true", AllChecks, dt)]>>),
                     "absent", NoPk, NoRules),
            MkSchema(DictColumns(<<[name |-> "a", spec |-> MkSpec("true", AllChecks, dt)]>>),
                     "absent", NoPk, RuleList(<<NamedRule("ge", "a >= b")>>)),
            MkSchema(DictColumns(<<[name |-> "c", spec |-> MkSpec("true", {}, "")],
                                   [name |-> "b", spec |-> MkSpec("absent", {"max", "unique"}, "float")],
                                   [name |-> "a", spec |-> MkSpec("true", AllChecks, dt)]>>),
                     "false", PkList(<<"a">>),
                     RuleList(<<NamedRule("bad", "a >="), NamedRule("ge", "a >= b"),
                                NamedRule("ne", "a != b")>>))} :
           dt \in {"", "string"}}

\* column names for schemas and tables of more columns than an issue of a
\* column check keeps examples
WideNames == <<"c1", "c2", "c3", "c4", "c5", "c6">>

WideTable == [i \in DOMAIN WideNames |-> [ColumnX(NRows) EXCEPT !.name = WideNames[i]]]

WideSchemas ==
    {MkSchema(DictColumns(items), extra, pk, NoRules) :
        items \in {[i \in DOMAIN WideNames |-> [name |-> WideNames[i], spec |-> MkSpec("true", {}, "")]],
                   <<[name |-> "a", spec |-> EmptySpec]>>},
        extra \in {"absent", "false"},
        pk \in {NoPk, PkList(WideNames)}}

InitExamples ==
    \/ schema \in LongSchemas /\ df \in LongTables
    \/ schema \in WideSchemas /\ df \in TablesWithoutA \cup {WideTable}

(***************************************************************************)
(* The program: a call of validate, and a command-line run.                *)
(***************************************************************************)
NotRun == -1

InitRun ==
    /\ results = <<>>
    /\ rerun = FALSE
    /\ stdout = ""
    /\ exit_code = NotRun

\* the first and the latest result of the runs so far; rerun tells whether the
\* pair was validated more than once
Keep(rs, r) == IF rs = <<>> THEN <<r, r>> ELSE <<rs[1], r>>

\* variant: the numeric coercion of the range check is written back to the table
Validate_WritesBack ==
    /\ results' = Keep(results, validate(df, schema))
    /\ rerun' = (results # <<>>)
    /\ df' = [i \in DOMAIN df |-> [df[i] EXCEPT !.values = to_numeric(df[i].values)]]
    /\ UNCHANGED <<schema, stdout, exit_code>>

\* is_valid, issues = validate(df, schema); validate assigns neither to df nor
\* to schema
Validate ==
    /\ results' = Keep(results, validate(df, schema))
    /\ rerun' = (results # <<>>)
    /\ UNCHANGED <<df, schema, stdout, exit_code>>

\* main() after validate returned r: _print_report(is_valid, issues) and the
\* exit status
Report(r) ==
    /\ results' = Keep(results, r)
    /\ rerun' = (results # <<>>)
    /\ stdout' = _print_report(r.is_valid)
    /\ exit_code' = ExitStatus(r.is_valid)
    /\ UNCHANGED <<df, schema>>

\* main(): a command-line run on the loaded schema and table
Main == Report(validate(df, schema))

Next == Validate \/ Main

Init ==
    (InitColumns \/ InitSchemaStructure \/ InitPrimaryKey \/ InitRules \/ InitExamples) /\ InitRun

Spec == Init /\ [][Next]_vars

(***************************************************************************)
(* Properties.                                                             *)
(***************************************************************************)
HasError(issues) == \E i \in DOMAIN issues : issues[i].level = "ERROR"

Codes(issues) == [i \in DOMAIN issues |-> issues[i].code]

WithCode(issues, code) == SelectSeq(issues, LAMBDA x : x.code = code)

\* results[1] is the first run's result, results[2] the latest run's
Ran == results # <<>>

Latest == results[2]

\* the schema's "columns" entry is missing, null, empty, or not a mapping
ColumnsEntryUnusable ==
    schema.columns.kind # "dict" \/ schema.columns.items = <<>>

\* C1: the verdict of every returned result is true exactly when its issue
\* list holds no issue of level ERROR
C1_VerdictIffNoError ==
    \A i \in DOMAIN results : results[i].is_valid <=> ~HasError(results[i].issues)

\* a valid run whose issue list holds warnings
C1_Witness ==
    /\ Ran
    /\ Latest.is_valid
    /\ \E i \in DOMAIN Latest.issues : Latest.issues[i].code = "DTYPE_INTLIKE_FLOAT"
    /\ \E i \in DOMAIN Latest.issues : Latest.issues[i].code = "UNEXPECTED_COLUMNS"

\* C2: with an unusable "columns" entry the result is invalid and its issue
\* list is exactly one ERROR SCHEMA_NO_COLUMNS, whatever else the schema holds
C2_NoColumnsHalts ==
    (Ran /\ ColumnsEntryUnusable) =>
        \A i \in DOMAIN results :
            /\ ~results[i].is_valid
            /\ Len(results[i].issues) = 1
            /\ results[i].issues[1].code = "SCHEMA_NO_COLUMNS"
            /\ results[i].issues[1].level = "ERROR"

\* "columns" is a non-empty list, and the schema has a primary key absent from
\* the table and a rule that is no mapping
C2_Witness ==
    /\ Ran
    /\ schema.columns.kind = "list" /\ schema.columns.items # <<>>
    /\ schema.primary_key.kind = "list" /\ schema.primary_key.items # <<>>
    /\ schema.rules.kind = "list" /\ schema.rules.items # <<>>
    /\ schema.allow_extra_columns = "false" /\ df # <<>>
    /\ Codes(Latest.issues) = <<"SCHEMA_NO_COLUMNS">>

TableNames == {df[i].name : i \in DOMAIN df}

\* the names of the schema's columns marked required=true that the table lacks
RequiredAbsent ==
    LET it == SelectSeq(schema.columns.items,
                        LAMBDA e : ~e.spec.isnone /\ e.spec.required = "true"
                                   /\ e.name \notin TableNames)
    IN  [i \in DOMAIN it |-> it[i].name]

\* C3: a table lacking required columns gets exactly one
\* MISSING_REQUIRED_COLUMNS issue, whose examples are the missing required
\* names and whose n_rows is their number; and no issue names a schema column
\* that the table lacks
C3_MissingRequiredOnce ==
    (Ran /\ ~ColumnsEntryUnusable) =>
        /\ RequiredAbsent # <<>> =>
              LET m == WithCode(Latest.issues, "MISSING_REQUIRED_COLUMNS")
              IN  /\ Len(m) = 1
                  /\ m[1].examples = [i \in DOMAIN RequiredAbsent |->
                                         [names |-> <<RequiredAbsent[i]>>, vals |-> <<>>]]
                  /\ m[1].n_rows = Len(RequiredAbsent)
        /\ \A e \in Range(schema.columns.items) :
              e.name \notin TableNames =>
                  ~\E i \in DOMAIN Latest.issues : Latest.issues[i].column = e.name

\* two required columns are missing, one of them with every check switched on
C3_Witness ==
    /\ Ran
    /\ ~ColumnsEntryUnusable
    /\ Len(RequiredAbsent) = 2
    /\ df # <<>>
    /\ \E e \in Range(schema.columns.items) :
          /\ e.name \notin TableNames
          /\ e.spec.has_min /\ e.spec.has_allowed /\ e.spec.unique = "true"
          /\ e.spec.nullable = "false" /\ e.spec.regex # <<>> /\ e.spec.dtype # ""

\* C4: a command-line run exits 0 and prints VALID exactly when validate
\* found no ERROR issue, and exits 2 and prints INVALID exactly when it found one
C4_ExitStatus ==
    exit_code # NotRun =>
        /\ (exit_code = 0 /\ stdout = "VALID") <=> ~HasError(Latest.issues)
        /\ (exit_code = 2 /\ stdout = "INVALID") <=> HasError(Latest.issues)

\* a command-line run with warnings only
C4_Witness ==
    /\ exit_code = 0
    /\ stdout = "VALID"
    /\ Latest.issues # <<>>
    /\ ~HasError(Latest.issues)

\* every column spec is nullable and has none of min, max, allowed, regex, unique
PlainSpecs ==
    \A e \in Range(schema.columns.items) :
        \/ e.spec.isnone
        \/ /\ e.spec.nullable \in {"absent", "true"}
           /\ ~e.spec.has_min /\ ~e.spec.has_max /\ ~e.spec.has_allowed
           /\ e.spec.regex = <<>>
           /\ e.spec.unique \in {"absent", "false"}

\* C5, as claimed: plain column specs and all required columns present give a
\* valid result with no issue, whatever the dtype, primary_key, rules and
\* allow_extra_columns
C5_PlainSchemaAlwaysClean ==
    (Ran /\ ~ColumnsEntryUnusable /\ PlainSpecs /\ RequiredAbsent = <<>>) =>
        (Latest.is_valid /\ Latest.issues = <<>>)

\* no dtype is declared, there is no primary key and no rule, and the table
\* has no undeclared column unless extras are allowed
NothingElseDeclared ==
    /\ \A e \in Range(schema.columns.items) : e.spec.isnone \/ e.spec.dtype = ""
    /\ schema.primary_key.kind \in {"absent", "none"}
    /\ schema.rules.kind \in {"absent", "none"}
    /\ \/ schema.allow_extra_columns \in {"absent", "true"}
       \/ TableNames \subseteq {e.name : e \in Range(schema.columns.items)}

\* C5, amended: plain column specs that declare no dtype, all required columns
\* present, no primary key, no rules and no disallowed extra column give a
\* valid result with no issue, for any table content
C5_PlainSchemaClean ==
    (Ran /\ ~ColumnsEntryUnusable /\ PlainSpecs /\ RequiredAbsent = <<>> /\ NothingElseDeclared) =>
        (Latest.is_valid /\ Latest.issues = <<>>)

\* a plain schema whose required column is present and holds nulls and texts
C5_Witness ==
    /\ Ran
    /\ ~ColumnsEntryUnusable /\ PlainSpecs /\ RequiredAbsent = <<>> /\ NothingElseDeclared
    /\ \E e \in Range(schema.columns.items) : e.spec.required = "true"
    /\ \E i \in DOMAIN df : df[i].dtype = "object" /\ NaN \in Range(df[i].values)
    /\ Latest.is_valid /\ Latest.issues = <<>>

\* a row outcome that is a definite true: True, or a non-zero number
DefiniteTrue(v) == v = Bool(TRUE) \/ (v.k = "num" /\ v.n # 0)

\* the rule is a mapping with a non-empty text expr whose evaluation gives a
\* row-wise result
Evaluates(r) ==
    /\ r.pytype = "dict" /\ r.expr_kind = "str" /\ r.expr # ""
    /\ ~df_eval(df, r.expr).raised
    /\ df_eval(df, r.expr).is_series

\* C6, as claimed: for every rule that evaluates, the rows whose outcome is not
\* a definite true (false or missing) are the violations: TABLE_RULE_VIOLATION
\* is emitted iff there are any, with n_rows their number
C6_FailClosed ==
    (Ran /\ ~ColumnsEntryUnusable /\ schema.rules.kind = "list") =>
        \A r \in Range(schema.rules.items) :
            Evaluates(r) =>
                LET out == df_eval(df, r.expr).out
                    n == Cardinality({i \in DOMAIN out : ~DefiniteTrue(out[i])})
                    v == SelectSeq(Latest.issues,
                                   LAMBDA x : x.code = "TABLE_RULE_VIOLATION"
                                              /\ x.message.strs = <<RuleName(r), r.expr>>)
                IN  /\ (n > 0) <=> (v # <<>>)
                    /\ \A j \in DOMAIN v : v[j].n_rows = n

RuleErrorCodes == {"TABLE_RULE_EVAL_ERROR", "SCHEMA_RULE_INVALID", "SCHEMA_RULE_MISSING_EXPR"}

\* what a rule must report: the error of a rule that is no mapping, has no
\* text expr, or cannot be evaluated; otherwise its violation, if any
ExpectedRuleCode(r) ==
    IF r.pytype # "dict" THEN "SCHEMA_RULE_INVALID"
    ELSE IF r.expr_kind # "str" \/ r.expr = "" THEN "SCHEMA_RULE_MISSING_EXPR"
    ELSE IF ~Evaluates(r) THEN "TABLE_RULE_EVAL_ERROR"
    ELSE IF CountTrue(RuleBadMask(_safe_eval_expr(df, r.expr).out)) > 0 THEN "TABLE_RULE_VIOLATION"
    ELSE "none"

RuleStage(issues) ==
    SelectSeq(issues, LAMBDA x : x.code \in RuleErrorCodes \cup {"TABLE_RULE_VIOLATION"})

\* C7: in a rules list every rule that is no mapping, has no text expr or
\* cannot be evaluated reports exactly one issue of its kind (naming the rule,
\* or carrying the failure message), every other rule still reports its own
\* issue in rule order, and the issues of the earlier stages are kept
C7_RuleErrorsDoNotAbort ==
    (Ran /\ ~ColumnsEntryUnusable /\ schema.rules.kind = "list") =>
        LET got == RuleStage(Latest.issues)
            reporting == SelectSeq(schema.rules.items, LAMBDA r : ExpectedRuleCode(r) # "none")
            earlier == validate(df, [schema EXCEPT !.rules = NoRules]).issues
        IN  /\ Len(got) = Len(reporting)
            /\ \A i \in DOMAIN got :
                  /\ i \in DOMAIN reporting
                  /\ got[i].code = ExpectedRuleCode(reporting[i])
                  /\ got[i].level = "ERROR"
                  /\ got[i].code = "SCHEMA_RULE_MISSING_EXPR" =>
                        got[i].message.strs =
                            <<IF reporting[i].has_name THEN reporting[i].name ELSE "unnamed_rule">>
                  /\ got[i].code = "TABLE_RULE_EVAL_ERROR" =>
                        /\ got[i].message.strs[1] = reporting[i].expr
                        /\ got[i].message.strs[2] =
                              (IF df_eval(df, reporting[i].expr).raised
                               THEN df_eval(df, reporting[i].expr).cause
                               ELSE "Expression did not evaluate to a row-wise Series.")
            /\ Latest.issues = earlier \o got

\* a rule that cannot be evaluated, followed by a violated rule, after a
\* column issue
C7_Witness ==
    /\ Ran
    /\ schema.rules.kind = "list"
    /\ Codes(Latest.issues) = <<"NULLS_NOT_ALLOWED", "TABLE_RULE_EVAL_ERROR", "TABLE_RULE_VIOLATION">>

\* the primary_key entry is present and is no non-empty list of texts
KeyEntryInvalid ==
    /\ schema.primary_key.kind \in {"list", "str", "int"}
    /\ ~(/\ schema.primary_key.kind = "list"
         /\ schema.primary_key.items # <<>>
         /\ \A i \in DOMAIN schema.primary_key.items : schema.primary_key.items[i].isstr)

\* C8, as claimed: a primary_key entry that is no non-empty list of texts is
\* reported as SCHEMA_PRIMARY_KEY_INVALID, with no other primary-key issue
C8_InvalidKeyReported ==
    (Ran /\ ~ColumnsEntryUnusable /\ KeyEntryInvalid) =>
        /\ \E i \in DOMAIN Latest.issues :
              Latest.issues[i].code = "SCHEMA_PRIMARY_KEY_INVALID" /\ Latest.issues[i].level = "ERROR"
        /\ WithCode(Latest.issues, "PRIMARY_KEY_MISSING_COLUMNS") = <<>>
        /\ WithCode(Latest.issues, "PRIMARY_KEY_NOT_UNIQUE") = <<>>

KeyValid ==
    /\ schema.primary_key.kind = "list"
    /\ schema.primary_key.items # <<>>
    /\ \A i \in DOMAIN schema.primary_key.items : schema.primary_key.items[i].isstr

KeyNames == [i \in DOMAIN schema.primary_key.items |-> schema.primary_key.items[i].name]

KeyAbsent == SelectSeq(KeyNames, LAMBDA c : c \notin TableNames)

Cell(c, i) == (CHOOSE col \in Range(df) : col.name = c).values[i]

\* the rows whose full key tuple is the key tuple of another row
SharedKeyRows ==
    {i \in 1..RowCount(df) : \E j \in 1..RowCount(df) :
        j # i /\ \A k \in DOMAIN KeyNames : Cell(KeyNames[k], i) = Cell(KeyNames[k], j)}

PrimaryKeyCodes ==
    {"SCHEMA_PRIMARY_KEY_INVALID", "PRIMARY_KEY_MISSING_COLUMNS", "PRIMARY_KEY_NOT_UNIQUE"}

\* C9: with a valid primary_key list, absent key columns give exactly one
\* PRIMARY_KEY_MISSING_COLUMNS listing them and no uniqueness issue; otherwise
\* exactly one PRIMARY_KEY_NOT_UNIQUE iff some key tuple is shared, n_rows being
\* the number of rows sharing their key tuple; at most one primary-key issue
C9_PrimaryKey ==
    (Ran /\ ~ColumnsEntryUnusable) =>
        LET miss == WithCode(Latest.issues, "PRIMARY_KEY_MISSING_COLUMNS")
            dup == WithCode(Latest.issues, "PRIMARY_KEY_NOT_UNIQUE")
        IN  /\ Len(SelectSeq(Latest.issues, LAMBDA x : x.code \in PrimaryKeyCodes)) <= 1
            /\ KeyValid =>
                  IF KeyAbsent # <<>>
                  THEN /\ Len(miss) = 1
                       /\ miss[1].examples = [i \in DOMAIN KeyAbsent |->
                                                 [names |-> <<KeyAbsent[i]>>, vals |-> <<>>]]
                       /\ dup = <<>>
                  ELSE /\ miss = <<>>
                       /\ (SharedKeyRows # {}) <=> (Len(dup) = 1)
                       /\ dup # <<>> => dup[1].n_rows = Cardinality(SharedKeyRows)

\* key values 1, 1, 2: both rows holding 1 are counted
C9_Witness ==
    /\ Ran
    /\ KeyValid /\ KeyNames = <<"a">>
    /\ df # <<>>
    /\ df[1].name = "a" /\ df[1].values = <<Num(1), Num(1), Num(2)>>
    /\ \E i \in DOMAIN Latest.issues :
          Latest.issues[i].code = "PRIMARY_KEY_NOT_UNIQUE" /\ Latest.issues[i].n_rows = 2

ColumnCheckCodes ==
    {"NULLS_NOT_ALLOWED", "DTYPE_MISMATCH", "DTYPE_INTLIKE_FLOAT", "MIN_VIOLATION",
     "MAX_VIOLATION", "ALLOWED_SET_VIOLATION", "REGEX_VIOLATION", "UNIQUE_VIOLATION"}

\* the stage of the check order an issue code belongs to
StageOf(code) ==
    CASE code = "MISSING_REQUIRED_COLUMNS" -> 1
      [] code = "UNEXPECTED_COLUMNS" -> 2
      [] code \in ColumnCheckCodes -> 3
      [] code \in PrimaryKeyCodes -> 4
      [] code \in RuleErrorCodes \cup {"TABLE_RULE_VIOLATION", "SCHEMA_RULES_INVALID"} -> 5
      [] OTHER -> 0

\* the place of a column check within the checks of one column
CheckOf(code) ==
    CASE code = "NULLS_NOT_ALLOWED" -> 1
      [] code \in {"DTYPE_MISMATCH", "DTYPE_INTLIKE_FLOAT"} -> 2
      [] code = "MIN_VIOLATION" -> 3
      [] code = "MAX_VIOLATION" -> 4
      [] code = "ALLOWED_SET_VIOLATION" -> 5
      [] code = "REGEX_VIOLATION" -> 6
      [] code = "UNIQUE_VIOLATION" -> 7
      [] OTHER -> 0

\* the place of a column in the schema's "columns" mapping
SchemaPos(c) == CHOOSE i \in DOMAIN schema.columns.items : schema.columns.items[i].name = c

\* issue x may stand before issue y
MayPrecede(x, y) ==
    \/ StageOf(x.code) < StageOf(y.code)
    \/ /\ StageOf(x.code) = 3 /\ StageOf(y.code) = 3
       /\ \/ SchemaPos(x.column) < SchemaPos(y.column)
          \/ x.column = y.column /\ CheckOf(x.code) < CheckOf(y.code)
    \/ StageOf(x.code) = 5 /\ StageOf(y.code) = 5

\* issue x is the report of rule r
ReportOf(x, r) ==
    /\ x.code = ExpectedRuleCode(r)
    /\ CASE x.code = "SCHEMA_RULE_INVALID" -> x.message.strs = <<r.pytype>>
         [] x.code = "SCHEMA_RULE_MISSING_EXPR" -> x.message.strs = <<RuleName(r)>>
         [] x.code = "TABLE_RULE_VIOLATION" -> x.message.strs = <<RuleName(r), r.expr>>
         [] OTHER -> x.message.strs[1] = r.expr

\* the rule issues are reports of distinct rules, in the order the rules are
\* declared
InRuleOrder(issues) ==
    LET got == RuleStage(issues)
        rules == schema.rules.items
    IN  \E f \in [DOMAIN got -> DOMAIN rules] :
            /\ \A i, j \in DOMAIN got : i < j => f[i] < f[j]
            /\ \A i \in DOMAIN got : ReportOf(got[i], rules[f[i]])

\* C11: in every returned issue list an issue of an earlier stage (missing
\* required columns, unexpected columns, column checks, primary key, rules)
\* never follows one of a later stage; the column issues are grouped by column
\* in the schema's column order and within a column follow the order nulls,
\* dtype, min, max, allowed set, regex, uniqueness; the rule issues follow the
\* order in which the rules are declared
C11_IssueOrder ==
    (Ran /\ ~ColumnsEntryUnusable) =>
        \A k \in DOMAIN results :
            LET issues == results[k].issues
            IN  /\ \A i, j \in DOMAIN issues : i < j => MayPrecede(issues[i], issues[j])
                /\ \A i \in DOMAIN issues :
                      /\ StageOf(issues[i].code) # 0
                      /\ StageOf(issues[i].code) = 3 =>
                            issues[i].column \in Range(SchemaColumnNames(schema))
                /\ schema.rules.kind = "list" => InRuleOrder(issues)

\* a run through every stage: the schema declares c, b, a and the table holds
\* a, b, x; both b and a have issues, and three rules report
C11_Witness ==
    /\ Ran
    /\ SchemaColumnNames(schema) = <<"c", "b", "a">>
    /\ ColumnNames(df) = <<"a", "b", "x">>
    /\ Codes(Latest.issues) =
          <<"MISSING_REQUIRED_COLUMNS", "UNEXPECTED_COLUMNS", "MAX_VIOLATION", "UNIQUE_VIOLATION",
            "NULLS_NOT_ALLOWED", "DTYPE_MISMATCH", "MIN_VIOLATION", "MAX_VIOLATION",
            "ALLOWED_SET_VIOLATION", "REGEX_VIOLATION", "UNIQUE_VIOLATION",
            "PRIMARY_KEY_NOT_UNIQUE", "TABLE_RULE_EVAL_ERROR", "TABLE_RULE_VIOLATION",
            "TABLE_RULE_VIOLATION">>
    /\ \A i \in 3..4 : Latest.issues[i].column = "b"
    /\ \A i \in 5..11 : Latest.issues[i].column = "a"

\* the column checks whose issues carry example values
ExampleCodes ==
    {"NULLS_NOT_ALLOWED", "MIN_VIOLATION", "MAX_VIOLATION", "ALLOWED_SET_VIOLATION",
     "REGEX_VIOLATION", "UNIQUE_VIOLATION"}

\* the issues whose examples are column names
NameListCodes ==
    {"MISSING_REQUIRED_COLUMNS", "UNEXPECTED_COLUMNS", "PRIMARY_KEY_MISSING_COLUMNS"}

Min(x, y) == IF x <= y THEN x ELSE y

TableColumn(c) == CHOOSE col \in Range(df) : col.name = c

SchemaSpec(c) ==
    LET e == CHOOSE e \in Range(schema.columns.items) : e.name = c
    IN  IF e.spec.isnone THEN EmptySpec ELSE e.spec

\* the value the range check compares: the cell as a number, if it is one
AsNumber(v) == IF v.k = "str" THEN ParseNumber(v.s) ELSE v

\* the value the allowed-set check compares: the cell's text when the declared
\* dtype is string, else the cell
AsCompared(v, col, spec) ==
    IF Lower(spec.dtype) = "string" /\ v.k # "nan" THEN Str(StrOfCell(v, col.dtype)) ELSE v

\* the rows of the table that offend against the check a column issue reports
OffendingRows(x) ==
    LET col == TableColumn(x.column)
        spec == SchemaSpec(x.column)
        v(i) == col.values[i]
    IN  {i \in DOMAIN col.values :
            CASE x.code = "NULLS_NOT_ALLOWED" -> v(i).k = "nan"
              [] x.code = "MIN_VIOLATION" -> AsNumber(v(i)).k = "num" /\ AsNumber(v(i)).n < spec.min.n
              [] x.code = "MAX_VIOLATION" -> AsNumber(v(i)).k = "num" /\ AsNumber(v(i)).n > spec.max.n
              [] x.code = "ALLOWED_SET_VIOLATION" ->
                   v(i).k # "nan" /\ AsCompared(v(i), col, spec) \notin spec.allowed
              [] x.code = "REGEX_VIOLATION" ->
                   v(i).k # "nan" /\ ~str_match(StrOfCell(v(i), col.dtype), spec.regex)
              [] OTHER ->
                   v(i).k # "nan" /\ \E j \in DOMAIN col.values : j # i /\ v(j) = v(i)}

\* the rows of the table for which the rule a TABLE_RULE_VIOLATION names does
\* not come out true
ViolatingRows(x) ==
    LET ok == _safe_eval_expr(df, x.message.strs[2]).out
    IN  {i \in DOMAIN ok : ok[i] # Bool(TRUE)}

\* the j-th row of a set of rows, in table row order
NthRow(rows, j) == CHOOSE i \in rows : Cardinality({r \in rows : r <= i}) = j

\* the examples of a column issue are the values of its first offending rows,
\* at most five
ColumnExamplesCapped(x) ==
    LET rows == OffendingRows(x)
        col == TableColumn(x.column)
    IN  /\ x.has_examples
        /\ x.n_rows = Cardinality(rows)
        /\ Len(x.examples) = Min(x.n_rows, 5)
        /\ \A j \in DOMAIN x.examples :
              x.examples[j] =
                  [names |-> <<>>,
                   vals |-> <<IF x.code \in {"MIN_VIOLATION", "MAX_VIOLATION"}
                              THEN AsNumber(col.values[NthRow(rows, j)])
                              ELSE col.values[NthRow(rows, j)]>>]

\* the examples of a rule violation are the records of its first violating
\* rows, at most three
RuleExamplesCapped(x) ==
    LET rows == ViolatingRows(x)
    IN  /\ x.has_examples
        /\ x.n_rows = Cardinality(rows)
        /\ Len(x.examples) = Min(x.n_rows, 3)
        /\ \A j \in DOMAIN x.examples :
              x.examples[j] =
                  [names |-> [k \in DOMAIN df |-> df[k].name],
                   vals |-> [k \in DOMAIN df |-> df[k].values[NthRow(rows, j)]]]

\* C12, as claimed: every issue of every returned list has at most five
\* examples; an issue of a column check has min(n_rows, 5) examples and a
\* TABLE_RULE_VIOLATION min(n_rows, 3), those of the first offending rows in
\* table row order
C12_EveryExamplesBounded ==
    (Ran /\ ~ColumnsEntryUnusable) =>
        \A k \in DOMAIN results : \A i \in DOMAIN results[k].issues :
            LET x == results[k].issues[i]
            IN  /\ Len(x.examples) <= 5
                /\ x.code \in ExampleCodes => ColumnExamplesCapped(x)
                /\ x.code = "TABLE_RULE_VIOLATION" => RuleExamplesCapped(x)

\* C12, amended: an issue of a column check has min(n_rows, 5) examples, a
\* PRIMARY_KEY_NOT_UNIQUE min(n_rows, 5) and a TABLE_RULE_VIOLATION
\* min(n_rows, 3), those of the first offending rows in table row order; an
\* issue that lists column names (missing required, unexpected, missing key
\* columns) has one example per name, however many; every other issue has no
\* examples
C12_ExamplesCapped ==
    (Ran /\ ~ColumnsEntryUnusable) =>
        \A k \in DOMAIN results : \A i \in DOMAIN results[k].issues :
            LET x == results[k].issues[i]
            IN  /\ x.code \in ExampleCodes => ColumnExamplesCapped(x)
                /\ x.code = "TABLE_RULE_VIOLATION" => RuleExamplesCapped(x)
                /\ x.code = "PRIMARY_KEY_NOT_UNIQUE" =>
                      x.has_examples /\ Len(x.examples) = Min(x.n_rows, 5)
                /\ x.code = "MISSING_REQUIRED_COLUMNS" =>
                      x.has_examples /\ Len(x.examples) = Len(RequiredAbsent)
                /\ x.code = "UNEXPECTED_COLUMNS" =>
                      /\ x.has_examples
                      /\ Len(x.examples) =
                            Cardinality(TableNames \ Range(SchemaColumnNames(schema)))
                /\ x.code = "PRIMARY_KEY_MISSING_COLUMNS" =>
                      x.has_examples /\ Len(x.examples) = Len(KeyAbsent)
                /\ x.code \notin ExampleCodes \cup NameListCodes
                                \cup {"TABLE_RULE_VIOLATION", "PRIMARY_KEY_NOT_UNIQUE"} =>
                      ~x.has_examples /\ x.examples = <<>>

\* more than five rows offend against one column check and only later rows
\* against another; more than three rows violate a rule, the first row of the
\* table not among them
C12_Witness ==
    /\ Ran
    /\ \E i \in DOMAIN Latest.issues :
          /\ Latest.issues[i].code \in ExampleCodes
          /\ Latest.issues[i].n_rows > 5
          /\ Len(Latest.issues[i].examples) = 5
    /\ \E i \in DOMAIN Latest.issues :
          /\ Latest.issues[i].code \in ExampleCodes
          /\ Latest.issues[i].n_rows > 1
          /\ 1 \notin OffendingRows(Latest.issues[i])
    /\ \E i \in DOMAIN Latest.issues :
          /\ Latest.issues[i].code = "TABLE_RULE_VIOLATION"
          /\ Latest.issues[i].n_rows > 3
          /\ Len(Latest.issues[i].examples) = 3
          /\ 1 \notin ViolatingRows(Latest.issues[i])
====
